---- MODULE Spec2Model ----
(***************************************************************************)
(* libportal: the portal request lifecycle of account.c, email.c, file.c   *)
(* and screenshot.c.  Each file holds the same five functions around its   *)
(* own call struct (AccountCall, EmailCall, FileCall, ScreenshotCall):     *)
(* <x>_call_free, response_received, parent_exported, cancelled_cb and the *)
(* request function (get_user_information, compose_email, open_file,       *)
(* take_screenshot), plus the public entry points.  The model has one      *)
(* operator per function, parameterised by the kind of the call where the  *)
(* files differ.                                                           *)
(*                                                                         *)
(* A C string is a tuple of pieces, so that g_strconcat is \o and NULL     *)
(* (the empty tuple) differs from "" (one empty piece).                    *)
(***************************************************************************)
EXTENDS Integers, Sequences, FiniteSets, TLC

\* ------------------------------------------------------------ bounds
\* Call structs that can be allocated in one run.
MaxCalls == 2
\* GCancellable objects the caller owns.
MaxCancellables == 1
\* Times the exporter is asked for a handle for one call.
MaxExports == 2
MaxAttachments == 3

Calls == 1 .. MaxCalls
Cancellables == 1 .. MaxCancellables

\* ------------------------------------------------------------ constants
NULL == <<>>
Str(s) == <<s>>

PORTAL_BUS_NAME == Str("org.freedesktop.portal.Desktop")
PORTAL_OBJECT_PATH == Str("/org/freedesktop/portal/desktop")
REQUEST_PATH_PREFIX == Str("/org/freedesktop/portal/desktop/request/")
REQUEST_INTERFACE == Str("org.freedesktop.portal.Request")

\* portal->sender: the caller's own bus identity, fixed per XdpPortal.
Sender == Str("1_42")

\* The handles the exporter can deliver: NULL when the export failed.
ExportedHandles == {NULL, Str("x11:2a")}

Kinds == {"account", "email", "open_file", "save_file", "screenshot", "pick_color"}

\* The codes of a Response: 0 success, 1 cancelled, anything else failure.
ResponseCodes == {0, 1, 2}

\* ------------------------------------------------------------ state
VARIABLES
  calls,        \* the call structs, by slot
  tasks,        \* the GTask of each call
  cancelled,    \* per GCancellable: g_cancellable_cancel has run
  subs,         \* the bus's signal subscriptions
  handlers,     \* the "cancelled" handlers connected to the cancellables
  parents,      \* the exporter's side of each call's XdpParent
  remote,       \* the portal's request object of each call's invocation
  emitted,      \* per request, the Response it emitted, once a handler saw it
  invocations,  \* per call, the method calls sent to the portal object
  closes,       \* per call, the Close calls sent (the path addressed)
  inflight,     \* Response signals scheduled for dispatch: subscription, request
  log,          \* per call, what its handlers did, in order
  crashed,      \* the process died
  probe         \* one function of the library applied to one input, and the result

vars == <<calls, tasks, cancelled, subs, handlers,
          parents, remote, emitted, invocations, closes, inflight, log, crashed,
          probe>>

\* The state as one value, so that the C functions are functions of it.
World ==
  [calls |-> calls, tasks |-> tasks, cancelled |-> cancelled, subs |-> subs,
   handlers |-> handlers,
   parents |-> parents, remote |-> remote, emitted |-> emitted,
   invocations |-> invocations,
   closes |-> closes, inflight |-> inflight, log |-> log, crashed |-> crashed]

Changes(w) ==
  /\ calls' = w.calls
  /\ tasks' = w.tasks
  /\ cancelled' = w.cancelled
  /\ subs' = w.subs
  /\ handlers' = w.handlers
  /\ parents' = w.parents
  /\ remote' = w.remote
  /\ emitted' = w.emitted
  /\ invocations' = w.invocations
  /\ closes' = w.closes
  /\ inflight' = w.inflight
  /\ log' = w.log
  /\ crashed' = w.crashed

Becomes(w) == Changes(w) /\ probe' = probe

\* g_new0: every field zero.
NewCall ==
  [stage |-> "unused", kind |-> "account", parent |-> FALSE,
   parent_handle |-> NULL, signal_id |-> 0, request_path |-> NULL,
   cancelled_id |-> 0, attachments |-> NULL]

NoResult == [type |-> "unset", outcome |-> "unset", message |-> "", value |-> NULL]

\* A GTask: its cancellable (0: none), its result, how often it was returned
\* and its callback called, the code of the Response that returned it, whether
\* its completion waits in an idle source, and what the caller's callback got
\* from the _finish function.
NewTask ==
  [cancellable |-> 0, result |-> NoResult, returns |-> 0, callbacks |-> 0,
   response |-> -1, idle |-> FALSE, finish |-> "unset"]

NoParent == [pending |-> FALSE, exports |-> 0, unexports |-> 0]

\* The portal holds no request object: it never got the invocation, or the
\* request was closed, or it has emitted its Response.
NoRequest == [state |-> "none", path |-> NULL]

\* The content of a Response nobody has looked at yet.
Unseen == [response |-> -1, ret |-> NULL]

\* No function is being looked at on its own.
NoProbe == [op |-> "none"]

\* The portal object with no call started.
NoCalls ==
  /\ calls = [c \in Calls |-> NewCall]
  /\ tasks = [c \in Calls |-> NewTask]
  /\ cancelled = [k \in Cancellables |-> FALSE]
  /\ subs = {}
  /\ handlers = {}
  /\ parents = [c \in Calls |-> NoParent]
  /\ remote = [c \in Calls |-> NoRequest]
  /\ emitted = [c \in Calls |-> Unseen]
  /\ invocations = [c \in Calls |-> <<>>]
  /\ closes = [c \in Calls |-> <<>>]
  /\ inflight = {}
  /\ log = [c \in Calls |-> <<>>]
  /\ crashed = FALSE

Init == NoCalls /\ probe = NoProbe

Logged(w, c, e) == [w EXCEPT !.log[c] = Append(@, e)]

\* ------------------------------------------------------------ GLib, GDBus
\* call->parent->export (call->parent, parent_exported, call): the exporter
\* now owes one callback.
parent_export(w, c) ==
  Logged([w EXCEPT !.parents[c].pending = TRUE, !.parents[c].exports = @ + 1],
         c, "export")

\* call->parent->unexport (call->parent)
parent_unexport(w, c) ==
  Logged([w EXCEPT !.parents[c].unexports = @ + 1], c, "unexport")

\* How often e is in the log of call c.
Count(w, c, e) == Cardinality({i \in DOMAIN w.log[c] : w.log[c][i] = e})

\* GDBus and GObject hand out ids that are not 0 and are never handed out
\* again. Only which ids are equal matters, so the model names an id by the
\* call it is handed to and by how many that call was handed before.
FreshId(w, c, e) == c + MaxCalls * Count(w, c, e)

\* g_dbus_connection_signal_subscribe on path, with response_received and the
\* call as user data; returns the id in signal_id.
signal_subscribe(w, c, path) ==
  LET id == FreshId(w, c, "subscribe")
  IN  Logged([w EXCEPT !.subs = @ \cup {[id |-> id, path |-> path, call |-> c]},
                       !.calls[c].signal_id = id],
             c, "subscribe")

\* A Response is forgotten once nothing scheduled refers to it.
Swept(w) ==
  [w EXCEPT !.emitted = [r \in Calls |->
       IF \E d \in w.inflight : d.req = r THEN w.emitted[r] ELSE Unseen]]

\* g_dbus_connection_signal_unsubscribe: the subscription is gone, and GDBus
\* drops what it had scheduled for it (it looks the id up before it calls).
signal_unsubscribe(w, c, id) ==
  Logged(Swept([w EXCEPT !.subs = {s \in @ : s.id # id},
                         !.inflight = {d \in @ : d.sub # id}]),
         c, "unsubscribe")

\* g_signal_connect (cancellable, "cancelled", cancelled_cb, call)
signal_connect(w, c, k) ==
  LET id == FreshId(w, c, "connect")
  IN  Logged([w EXCEPT !.handlers = @ \cup {[id |-> id, cancellable |-> k, call |-> c]},
                       !.calls[c].cancelled_id = id],
             c, "connect")

\* g_signal_handler_disconnect (cancellable, id)
signal_handler_disconnect(w, c, id) ==
  Logged([w EXCEPT !.handlers = {h \in @ : h.id # id}], c, "disconnect")

\* g_cancellable_is_cancelled on the task's cancellable (NULL: not cancelled).
task_cancelled(w, c) ==
  w.tasks[c].cancellable # 0 /\ w.cancelled[w.tasks[c].cancellable]

\* xdp_portal_..._finish: g_task_propagate_pointer / _boolean. A GTask checks
\* its cancellable first and reports G_IO_ERROR_CANCELLED when it is cancelled,
\* whatever was returned to the task.
task_propagate(result, is_cancelled) ==
  IF is_cancelled
  THEN [type |-> "error", outcome |-> "Cancelled",
        message |-> "Operation was cancelled", value |-> NULL]
  ELSE result

portal_finish(w, c) ==
  task_propagate(w.tasks[c].result, task_cancelled(w, c)).outcome

\* The GTask invokes the caller's GAsyncReadyCallback, which takes the result
\* with the _finish function.
task_callback(w, c) ==
  Logged([w EXCEPT !.tasks[c].callbacks = @ + 1,
                   !.tasks[c].idle = FALSE,
                   !.tasks[c].finish = portal_finish(w, c)],
         c, "callback")

\* g_task_return_pointer / _boolean / _new_error: the result is stored.
\* response_received is dispatched by the main loop of the task's context in
\* a later iteration than the one that made the task, so the callback runs
\* at once, unless the cancellable is cancelled: then the GTask completes
\* from an idle source.
task_return(w, c, result) ==
  LET w1 == Logged([w EXCEPT !.tasks[c].result = result,
                             !.tasks[c].returns = @ + 1],
                   c, "return")
  IN  IF task_cancelled(w1, c)
      THEN [w1 EXCEPT !.tasks[c].idle = TRUE]
      ELSE task_callback(w1, c)

\* ------------------------------------------------------------ results
ReturnPointer(v) == [type |-> "pointer", outcome |-> "Success", message |-> "", value |-> v]
ReturnBoolean(v) == [type |-> "boolean", outcome |-> "Success", message |-> "", value |-> v]
ErrorCancelled(m) == [type |-> "error", outcome |-> "Cancelled", message |-> m, value |-> NULL]
ErrorFailed(m) == [type |-> "error", outcome |-> "Failed", message |-> m, value |-> NULL]

\* The a{sv} of a Response, as a function from its keys.
EmptyDict == [key \in {} |-> NULL]

GoodPayload(kind) ==
  CASE kind = "account" -> [id |-> Str("u1"), name |-> Str("Ann"), image |-> Str("file:///a.png")]
    [] kind \in {"open_file", "save_file"} -> [uris |-> Str("file:///doc/1")]
    [] kind = "screenshot" -> [uri |-> Str("file:///shot.png")]
    [] kind = "pick_color" -> [color |-> Str("(1.0, 0.0, 0.0)")]
    [] OTHER -> EmptyDict

\* What the portal can answer an action: its fields, or none of them.
Payloads(kind) == {GoodPayload(kind), EmptyDict}

\* g_variant_lookup into a variable that was initialised to NULL.
Lookup(ret, key) == IF key \in DOMAIN ret THEN ret[key] ELSE NULL

\* What an uninitialised pointer left untouched by g_variant_lookup can hold.
UninitValues == {"zero", "garbage", "wild"}
Garbage == Str("?")

\* The message of each file's G_IO_ERROR_CANCELLED.
CanceledMessage(kind) ==
  CASE kind = "account" -> "Account canceled"
    [] kind = "email" -> "Email canceled"
    [] kind \in {"open_file", "save_file"} -> "Filechooser canceled"
    [] OTHER -> "Screenshot canceled"

\* The message of each file's G_IO_ERROR_FAILED.
FailedMessage(kind) ==
  CASE kind = "account" -> "Account failed"
    [] kind = "email" -> "Email failed"
    [] kind \in {"open_file", "save_file"} -> "Filechooser failed"
    [] OTHER -> "Screenshot failed"

\* The entries of an a{sv} under the keys in S.
Restrict(f, S) == [key \in S |-> f[key]]

\* A response == 0 branch that builds the account result anew from the three
\* fields it knows instead of handing on the a{sv} it received.
SuccessResult_repacking(kind, ret, uninit) ==
  CASE kind = "email" -> ReturnBoolean(TRUE)
    [] kind = "pick_color" ->
         IF Lookup(ret, "color") # NULL THEN ReturnPointer(Lookup(ret, "color"))
         ELSE ErrorFailed("Color not received")
    [] kind = "screenshot" ->
         IF "uri" \in DOMAIN ret THEN ReturnPointer(ret["uri"])
         ELSE IF uninit = "zero" THEN ErrorFailed("Screenshot not received")
         ELSE ReturnPointer(Garbage)
    [] kind = "account" ->
         ReturnPointer(Restrict(ret, DOMAIN ret \cap {"id", "name", "image"}))
    [] OTHER -> ReturnPointer(ret)

\* response == 0 in response_received: what the file returns to the task.
\* screenshot.c reads uri, which g_variant_lookup leaves unset when the key
\* is absent: uninit is what it then holds ("wild": not even readable).
SuccessResult(kind, ret, uninit) ==
  CASE kind = "email" -> ReturnBoolean(TRUE)
    [] kind = "pick_color" ->
         IF Lookup(ret, "color") # NULL THEN ReturnPointer(Lookup(ret, "color"))
         ELSE ErrorFailed("Color not received")
    [] kind = "screenshot" ->
         IF "uri" \in DOMAIN ret THEN ReturnPointer(ret["uri"])
         ELSE IF uninit = "zero" THEN ErrorFailed("Screenshot not received")
         ELSE ReturnPointer(Garbage)
    [] OTHER -> ReturnPointer(ret)

\* response_received with the branches for 1 and for the other codes swapped.
ResponseResult_swapped(kind, response, ret, uninit) ==
  IF response = 0 THEN SuccessResult(kind, ret, uninit)
  ELSE IF response = 1 THEN ErrorFailed(FailedMessage(kind))
  ELSE ErrorCancelled(CanceledMessage(kind))

\* The if / else if / else on response in response_received.
ResponseResult(kind, response, ret, uninit) ==
  IF response = 0 THEN SuccessResult(kind, ret, uninit)
  ELSE IF response = 1 THEN ErrorCancelled(CanceledMessage(kind))
  ELSE ErrorFailed(FailedMessage(kind))

\* response_received reads a variable nothing has written.
ReadsUninit(kind, response, ret) ==
  kind = "screenshot" /\ response = 0 /\ "uri" \notin DOMAIN ret

\* g_strdup (uri) on a pointer that cannot be read.
Segfaults(kind, response, ret, uninit) ==
  ReadsUninit(kind, response, ret) /\ uninit = "wild"

\* ------------------------------------------------------------ the functions
\* A call_free that leaves the Response subscription in place.
call_free_subscribed(w, c) ==
  LET call == w.calls[c]
      w1 == IF call.parent THEN parent_unexport(w, c) ELSE w
      w3 == IF call.cancelled_id # 0
            THEN signal_handler_disconnect(w1, c, call.cancelled_id) ELSE w1
  IN  Logged([w3 EXCEPT !.calls[c] = [NewCall EXCEPT !.stage = "freed"]], c, "free")

\* A call_free that removes every subscription on the request path of the
\* call instead of the one with its signal_id.
call_free_by_path(w, c) ==
  LET call == w.calls[c]
      w1 == IF call.parent THEN parent_unexport(w, c) ELSE w
      gone == {x.id : x \in {y \in w1.subs : y.path = call.request_path}}
      w2 == IF call.signal_id # 0
            THEN Logged(Swept([w1 EXCEPT !.subs = {x \in @ : x.id \notin gone},
                                         !.inflight = {d \in @ : d.sub \notin gone}]),
                        c, "unsubscribe")
            ELSE w1
      w3 == IF call.cancelled_id # 0
            THEN signal_handler_disconnect(w2, c, call.cancelled_id) ELSE w2
  IN  Logged([w3 EXCEPT !.calls[c] = [NewCall EXCEPT !.stage = "freed"]], c, "free")

\* A call_free that tests cancelled_id where it should test signal_id: the
\* handler is disconnected by then, so the subscription stays.
call_free_testing_cancelled_id(w, c) ==
  LET call == w.calls[c]
      w1 == IF call.parent THEN parent_unexport(w, c) ELSE w
      w2 == IF call.cancelled_id # 0 THEN signal_unsubscribe(w1, c, call.signal_id) ELSE w1
      w3 == IF call.cancelled_id # 0
            THEN signal_handler_disconnect(w2, c, call.cancelled_id) ELSE w2
  IN  Logged([w3 EXCEPT !.calls[c] = [NewCall EXCEPT !.stage = "freed"]], c, "free")

\* A call_free that removes the subscription before it unexports the parent.
call_free_reordered(w, c) ==
  LET call == w.calls[c]
      w1 == IF call.signal_id # 0 THEN signal_unsubscribe(w, c, call.signal_id) ELSE w
      w2 == IF call.parent THEN parent_unexport(w1, c) ELSE w1
      w3 == IF call.cancelled_id # 0
            THEN signal_handler_disconnect(w2, c, call.cancelled_id) ELSE w2
  IN  Logged([w3 EXCEPT !.calls[c] = [NewCall EXCEPT !.stage = "freed"]], c, "free")

\* account_call_free, email_call_free, file_call_free, screenshot_call_free.
call_free(w, c) ==
  LET call == w.calls[c]
      w1 == IF call.parent THEN parent_unexport(w, c) ELSE w
      w2 == IF call.signal_id # 0 THEN signal_unsubscribe(w1, c, call.signal_id) ELSE w1
      w3 == IF call.cancelled_id # 0
            THEN signal_handler_disconnect(w2, c, call.cancelled_id) ELSE w2
  IN  Logged([w3 EXCEPT !.calls[c] = [NewCall EXCEPT !.stage = "freed"]], c, "free")

\* A disarm that disconnects the handler and keeps its id in the struct.
disarm_keeping_id(w, c) ==
  IF w.calls[c].cancelled_id # 0
  THEN signal_handler_disconnect(w, c, w.calls[c].cancelled_id)
  ELSE w

\* A disarm that forgets the handler id and leaves the handler connected.
disarm_forgetting(w, c) ==
  [w EXCEPT !.calls[c].cancelled_id = 0]

\* A disarm that disconnects every handler of the cancellable, not the one
\* with the id of the call.
disarm_by_cancellable(w, c) ==
  IF w.calls[c].cancelled_id # 0
  THEN [Logged([w EXCEPT !.handlers = {h \in @ : h.cancellable # w.tasks[c].cancellable}],
               c, "disconnect")
          EXCEPT !.calls[c].cancelled_id = 0]
  ELSE w

\* if (call->cancelled_id) { g_signal_handler_disconnect; call->cancelled_id = 0; }
disarm(w, c) ==
  IF w.calls[c].cancelled_id # 0
  THEN [signal_handler_disconnect(w, c, w.calls[c].cancelled_id)
          EXCEPT !.calls[c].cancelled_id = 0]
  ELSE w

\* A response_received that frees the call only after a Response with code 0.
response_received_leaking(w, c, response, ret, uninit) ==
  LET w1 == disarm(w, c)
      w2 == task_return([w1 EXCEPT !.tasks[c].response = response], c,
                        ResponseResult(w.calls[c].kind, response, ret, uninit))
  IN  IF Segfaults(w.calls[c].kind, response, ret, uninit)
      THEN [w1 EXCEPT !.crashed = TRUE]
      ELSE IF response = 0 THEN call_free(w2, c) ELSE w2

\* response_received, with the call the subscription carries as user data.
response_received(w, c, response, ret, uninit) ==
  LET w1 == disarm(w, c)
      w2 == task_return([w1 EXCEPT !.tasks[c].response = response], c,
                        ResponseResult(w.calls[c].kind, response, ret, uninit))
  IN  IF Segfaults(w.calls[c].kind, response, ret, uninit)
      THEN [w1 EXCEPT !.crashed = TRUE]
      ELSE call_free(w2, c)

\* Once the struct is freed and the callback has returned, the task is
\* finalised and nothing of the call is left in the process. The model keeps
\* what the caller saw: the kind of result, the code that led to it, the
\* counts, and the log.
Finalised(w, c) ==
  IF w.calls[c].stage # "freed" THEN w
  ELSE [w EXCEPT
          !.tasks[c].result = [@ EXCEPT !.message = "", !.value = NULL],
          !.invocations[c] = <<>>,
          !.closes[c] = <<>>,
          !.parents[c] = NoParent]

\* What the portal does with a Close on path: its open requests there end, and
\* no Response is emitted for them.
portal_close(w, path) ==
  [w EXCEPT !.remote = [r \in Calls |->
       IF w.remote[r].state = "open" /\ w.remote[r].path = path
       THEN NoRequest ELSE w.remote[r]]]

\* A cancelled_cb that addresses its Close to the path without the token.
cancelled_cb_on_prefix(w, c) ==
  LET path == REQUEST_PATH_PREFIX \o Sender
  IN  Logged(portal_close([w EXCEPT !.closes[c] = Append(@, path)], path), c, "close")

\* A cancelled_cb that sends its Close twice.
cancelled_cb_repeating(w, c) ==
  LET path == w.calls[c].request_path
      w1 == Logged(portal_close([w EXCEPT !.closes[c] = Append(@, path)], path), c, "close")
  IN  Logged(portal_close([w1 EXCEPT !.closes[c] = Append(@, path)], path), c, "close")

\* cancelled_cb: Close on the call's request path, nothing else.
cancelled_cb(w, c) ==
  LET path == w.calls[c].request_path
  IN  Logged(portal_close([w EXCEPT !.closes[c] = Append(@, path)], path), c, "close")

\* "Screenshot", "PickColor", ...: the method of the invocation.
Method(kind) ==
  CASE kind = "account" -> "GetUserInformation"
    [] kind = "email" -> "ComposeEmail"
    [] kind = "open_file" -> "OpenFile"
    [] kind = "save_file" -> "SaveFile"
    [] kind = "screenshot" -> "Screenshot"
    [] OTHER -> "PickColor"

\* g_strdup_printf ("portal%d", n)
Token(n) == <<"portal", n>>

\* g_strconcat (REQUEST_PATH_PREFIX, sender, "/", token, NULL)
RequestPath(sender, token) == REQUEST_PATH_PREFIX \o sender \o Str("/") \o token

\* A char ** is NULL or a list of strings, so that the empty list is not NULL.
Strv(list) == <<list>>

\* What the loop over call->attachments has built so far: the GUnixFDList,
\* the "ah" of indices into it, the g_warning messages, and the descriptors
\* g_open returned (g_unix_fd_list_append stores a duplicate, and nothing
\* closes the original).
NoAttachments == [fd_list |-> <<>>, attach_fds |-> <<>>, warnings |-> <<>>, unowned |-> {}]

\* The loop with the input position as the index instead of fd_in.
RECURSIVE attach_files_by_position(_, _, _)
attach_files_by_position(files, i, acc) ==
  IF i > Len(files) THEN acc
  ELSE LET f == files[i]
           fd == [path |-> f.path, pos |-> i, dup |-> FALSE]
       IN  CASE f.outcome = "missing" ->
                  attach_files_by_position(files, i + 1,
                    [acc EXCEPT !.warnings = Append(@, <<"Failed to open", f.path>>)])
             [] f.outcome = "refused" ->
                  attach_files_by_position(files, i + 1,
                    [acc EXCEPT !.warnings = Append(@, <<"Failed to add", f.path>>),
                                !.unowned = @ \cup {fd}])
             [] OTHER ->
                  attach_files_by_position(files, i + 1,
                    [acc EXCEPT !.attach_fds = Append(@, i - 1),
                                !.fd_list = Append(@, [fd EXCEPT !.dup = TRUE]),
                                !.unowned = @ \cup {fd}])

\* for (i = 0; call->attachments[i]; i++): g_open, g_unix_fd_list_append,
\* g_variant_builder_add "h". Each file carries what the system will answer:
\* "missing" (g_open returns -1), "refused" (the append sets error), "opened".
\* fd_in is the index the list gave the descriptor: its length before.
RECURSIVE attach_files(_, _, _)
attach_files(files, i, acc) ==
  IF i > Len(files) THEN acc
  ELSE LET f == files[i]
           fd == [path |-> f.path, pos |-> i, dup |-> FALSE]
       IN  CASE f.outcome = "missing" ->
                  attach_files(files, i + 1,
                    [acc EXCEPT !.warnings = Append(@, <<"Failed to open", f.path>>)])
             [] f.outcome = "refused" ->
                  attach_files(files, i + 1,
                    [acc EXCEPT !.warnings = Append(@, <<"Failed to add", f.path>>),
                                !.unowned = @ \cup {fd}])
             [] OTHER ->
                  attach_files(files, i + 1,
                    [acc EXCEPT !.attach_fds = Append(@, Len(acc.fd_list)),
                                !.fd_list = Append(@, [fd EXCEPT !.dup = TRUE]),
                                !.unowned = @ \cup {fd}])

\* if (call->attachments) { ... } in compose_email.
attachments_added(attachments) ==
  IF attachments = NULL THEN NoAttachments
  ELSE attach_files(attachments[1], 1, NoAttachments)

\* g_dbus_connection_call on the portal object, with no reply callback.
\* reaches: the portal got the message and made the request object, at the
\* path it derives from the sender and the handle_token. Otherwise the
\* method call failed (nobody owns the name, the portal refused it), and
\* the error reply goes nowhere.
\* The message is the method, its parent_handle argument and the entries of
\* its options; compose_email adds attachment_fds inside if (call->attachments)
\* and passes the GUnixFDList along.
send_invocation(w, c, token, reaches) ==
  LET call == w.calls[c]
      added == attachments_added(call.attachments)
      msg == IF call.attachments = NULL
             THEN [method |-> Method(call.kind), parent_handle |-> call.parent_handle,
                   handle_token |-> token]
             ELSE [method |-> Method(call.kind), parent_handle |-> call.parent_handle,
                   handle_token |-> token,
                   attachment_fds |-> added.attach_fds, fd_list |-> added.fd_list]
  IN  Logged([w EXCEPT !.invocations[c] = Append(@, msg),
                       !.remote[c] = IF reaches
                                     THEN [state |-> "open", path |-> RequestPath(Sender, token)]
                                     ELSE @,
                       !.calls[c].stage = "awaiting"],
             c, "invoke")

\* if (cancellable) call->cancelled_id = g_signal_connect (...)
arm(w, c) ==
  IF w.tasks[c].cancellable # 0 THEN signal_connect(w, c, w.tasks[c].cancellable) ELSE w

\* A request function that does not look at parent_handle.
portal_request_unchecked(w, c, n, reaches) ==
  LET token == Token(n)
      path == RequestPath(Sender, token)
      w1 == signal_subscribe([w EXCEPT !.calls[c].request_path = path], c, path)
  IN  send_invocation(arm(w1, c), c, token, reaches)

\* A request function that calls the portal before it subscribes and connects.
portal_request_sending_first(w, c, n, reaches) ==
  IF w.calls[c].parent_handle = NULL
  THEN parent_export([w EXCEPT !.calls[c].stage = "exporting"], c)
  ELSE LET token == Token(n)
           path == RequestPath(Sender, token)
           w1 == send_invocation([w EXCEPT !.calls[c].request_path = path], c, token, reaches)
       IN  arm(signal_subscribe(w1, c, path), c)

\* A request function that draws a second number for the handle_token it
\* sends.
portal_request_two_tokens(w, c, n, reaches) ==
  IF w.calls[c].parent_handle = NULL
  THEN parent_export([w EXCEPT !.calls[c].stage = "exporting"], c)
  ELSE LET token == Token(n)
           path == RequestPath(Sender, token)
           w1 == signal_subscribe([w EXCEPT !.calls[c].request_path = path], c, path)
           w2 == arm(w1, c)
       IN  send_invocation(w2, c, Token(n + 1), reaches)

\* A request function that makes the token and the path and subscribes
\* before it looks at parent_handle.
portal_request_allocating_first(w, c, n, reaches) ==
  LET token == Token(n)
      path == RequestPath(Sender, token)
      w1 == signal_subscribe([w EXCEPT !.calls[c].request_path = path], c, path)
  IN  IF w.calls[c].parent_handle = NULL
      THEN parent_export([w1 EXCEPT !.calls[c].stage = "exporting"], c)
      ELSE send_invocation(arm(w1, c), c, token, reaches)

\* get_user_information, compose_email, open_file, take_screenshot.
\* n is what g_random_int_range returns.
portal_request(w, c, n, reaches) ==
  IF w.calls[c].parent_handle = NULL
  THEN parent_export([w EXCEPT !.calls[c].stage = "exporting"], c)
  ELSE LET token == Token(n)
           path == RequestPath(Sender, token)
           w1 == signal_subscribe([w EXCEPT !.calls[c].request_path = path], c, path)
           w2 == arm(w1, c)
       IN  send_invocation(w2, c, token, reaches)

\* parent_exported
parent_exported(w, c, handle, n, reaches) ==
  portal_request([w EXCEPT !.parents[c].pending = FALSE,
                           !.calls[c].parent_handle = handle],
                 c, n, reaches)

\* An entry point that leaves parent_handle NULL when no parent is given.
xdp_portal_call_without_default(w, c, kind, parent, k, n, reaches) ==
  LET call == [NewCall EXCEPT !.stage = "created", !.kind = kind, !.parent = parent]
      task == [NewTask EXCEPT !.cancellable = k]
  IN  portal_request(Logged([w EXCEPT !.calls[c] = call, !.tasks[c] = task], c, "new"),
                     c, n, reaches)

\* xdp_portal_get_user_information, _compose_email, _open_file, _take_screenshot,
\* _pick_color: the parent is copied when given, else the handle is "".
\* k is the caller's GCancellable, 0 for none.
xdp_portal_call(w, c, kind, parent, k, n, reaches) ==
  LET call == [NewCall EXCEPT !.stage = "created", !.kind = kind, !.parent = parent,
                              !.parent_handle = IF parent THEN NULL ELSE Str("")]
      task == [NewTask EXCEPT !.cancellable = k]
  IN  portal_request(Logged([w EXCEPT !.calls[c] = call, !.tasks[c] = task], c, "new"),
                     c, n, reaches)

\* xdp_portal_compose_email: the same, and call->attachments = g_strdupv
\* (attachments), which is NULL for NULL.
xdp_portal_compose_email(w, c, parent, k, n, reaches, attachments) ==
  LET call == [NewCall EXCEPT !.stage = "created", !.kind = "email", !.parent = parent,
                              !.parent_handle = IF parent THEN NULL ELSE Str(""),
                              !.attachments = attachments]
      task == [NewTask EXCEPT !.cancellable = k]
  IN  portal_request(Logged([w EXCEPT !.calls[c] = call, !.tasks[c] = task], c, "new"),
                     c, n, reaches)

\* xdp_portal_save_file allocates the struct and copies the parent without
\* looking at it, and never sets parent_handle. With no parent given the copy
\* reads through NULL; were it to return NULL, open_file would call export
\* through the NULL call->parent. The process dies before the task is made.
xdp_portal_save_file(w, c, parent, k, n, reaches) ==
  IF parent THEN xdp_portal_call(w, c, "save_file", parent, k, n, reaches)
  ELSE Logged([w EXCEPT !.calls[c] = [NewCall EXCEPT !.stage = "created",
                                                      !.kind = "save_file"],
                        !.crashed = TRUE],
              c, "new")

\* response_received when the caller's GAsyncReadyCallback, which GTask runs
\* inside g_task_return_*, starts another call before it returns: the entry
\* point of the new call runs between g_task_return_* and <x>_call_free.
response_received_in_callback(w, c, response, ret, uninit, new) ==
  LET w1 == disarm(w, c)
      w2 == task_return([w1 EXCEPT !.tasks[c].response = response], c,
                        ResponseResult(w.calls[c].kind, response, ret, uninit))
      w2a == Logged(w2, c, "start_in_callback")
      w3 == IF new.kind = "save_file"
            THEN xdp_portal_save_file(w2a, new.call, new.parent, new.k, new.n, new.reaches)
            ELSE xdp_portal_call(w2a, new.call, new.kind, new.parent, new.k, new.n, new.reaches)
  IN  IF w3.crashed THEN w3 ELSE call_free(w3, c)

\* g_cancellable_cancel: the handlers connected to k run, one after the other
\* (what they do here does not depend on the order).
RECURSIVE emit_cancelled(_, _)
emit_cancelled(w, hs) ==
  IF hs = {} THEN w
  ELSE LET h == CHOOSE x \in hs : \A y \in hs : x.id <= y.id
       IN  emit_cancelled(cancelled_cb(w, h.call), hs \ {h})

cancellable_cancel(w, k) ==
  emit_cancelled([w EXCEPT !.cancelled[k] = TRUE],
                 {h \in w.handlers : h.cancellable = k})

\* The portal emits Response for the request of call c, which is then gone;
\* the bus schedules the signal for every subscription on that path. What the
\* Response holds is the portal's choice; nothing depends on it before the
\* first handler reads it, and the model draws it there.
portal_respond(w, c) ==
  [w EXCEPT !.remote[c] = NoRequest,
            !.inflight = @ \cup {[sub |-> s.id, req |-> c] :
                                   s \in {x \in w.subs : x.path = w.remote[c].path}}]

\* The main loop takes the scheduled signal d off its queue.
dispatched(w, d, response, ret) ==
  Swept([w EXCEPT !.inflight = @ \ {d},
                  !.emitted[d.req] = [response |-> response, ret |-> ret]])

\* g_random_int_range (0, G_MAXINT): any number. Only which numbers are equal
\* matters, so a draw is named by the numbers still in use: one of them, or
\* the least that is not.
NumberOf(path) == path[Len(path)]

NumbersInUse ==
  {NumberOf(calls[c].request_path) : c \in {x \in Calls : calls[x].request_path # NULL}}
    \cup {NumberOf(remote[c].path) : c \in {x \in Calls : remote[x].path # NULL}}

RandomInts ==
  NumbersInUse \cup {CHOOSE n \in 0 .. MaxCalls :
                       n \notin NumbersInUse /\ \A m \in 0 .. (n - 1) : m \in NumbersInUse}

\* ------------------------------------------------------------ actions
\* The calls that were started with cancellable k.
Holders(k) == {c \in Calls : calls[c].stage # "unused" /\ tasks[c].cancellable = k}

\* The slot the next call struct takes: the first one not used yet.
FreeSlots ==
  {c \in Calls : calls[c].stage = "unused" /\ \A b \in Calls : b < c => calls[b].stage # "unused"}

\* The calls whose exporter owes them a callback.
Exporting == {c \in Calls : parents[c].pending}

\* The caller starts an action; the struct takes the first free slot. The
\* cancellable it passes is none (k = 0), one that an earlier call was given,
\* or another one, which the caller may have cancelled already (pre).
StartCall(c, kind, parent, k, pre, n, reaches) ==
  /\ ~crashed
  /\ c \in FreeSlots
  /\ pre = IF k = 0 THEN FALSE ELSE IF Holders(k) # {} THEN cancelled[k] ELSE pre
  /\ LET w == IF k = 0 THEN World ELSE [World EXCEPT !.cancelled[k] = pre]
     IN  Becomes(IF kind = "save_file"
                 THEN xdp_portal_save_file(w, c, parent, k, n, reaches)
                 ELSE xdp_portal_call(w, c, kind, parent, k, n, reaches))

\* The exporter calls back with the handle, or with none.
ParentExported(c, handle, n, reaches) ==
  /\ ~crashed
  /\ c \in Exporting
  /\ handle = NULL => parents[c].exports < MaxExports
  /\ Becomes(parent_exported(World, c, handle, n, reaches))

\* The caller cancels a cancellable it has passed to a call.
Cancel(k) ==
  /\ ~crashed
  /\ ~cancelled[k]
  /\ Holders(k) # {}
  /\ Becomes(cancellable_cancel(World, k))

\* The portal answers a request.
PortalRespond(c) ==
  /\ ~crashed
  /\ remote[c].state = "open"
  /\ Becomes(portal_respond(World, c))

\* The call a scheduled signal is for: the user data of its subscription.
CallOf(d) == (CHOOSE x \in subs : x.id = d.sub).call

\* The main loop runs the idle source of a returned task.
CompleteInIdle(c) ==
  /\ ~crashed
  /\ tasks[c].idle
  /\ Becomes(task_callback(World, c))

\* The main loop dispatches a scheduled Response.
ResponseReceived(d, response, ret, uninit) ==
  /\ ~crashed
  /\ d \in inflight
  /\ emitted[d.req] \in {Unseen, [response |-> response, ret |-> ret]}
  /\ Becomes(Finalised(response_received(dispatched(World, d, response, ret),
                                         CallOf(d), response, ret, uninit),
                       CallOf(d)))

\* The main loop dispatches a scheduled Response, and the callback of the
\* call, run at once because its cancellable is not cancelled, starts a call.
ResponseReceivedStarting(d, response, ret, uninit, new) ==
  /\ ~crashed
  /\ d \in inflight
  /\ emitted[d.req] \in {Unseen, [response |-> response, ret |-> ret]}
  /\ ~task_cancelled(World, CallOf(d))
  /\ ~Segfaults(calls[CallOf(d)].kind, response, ret, uninit)
  /\ new.call \in FreeSlots
  /\ Becomes(Finalised(response_received_in_callback(dispatched(World, d, response, ret),
                                                     CallOf(d), response, ret, uninit, new),
                       CallOf(d)))

Next ==
  \/ \E c \in FreeSlots, kind \in Kinds, parent \in BOOLEAN, k \in {0} \cup Cancellables,
        pre \in BOOLEAN :
       \E n \in (IF parent THEN {0} ELSE RandomInts),
          reaches \in (IF parent THEN {TRUE} ELSE BOOLEAN) :
         StartCall(c, kind, parent, k, pre, n, reaches)
  \/ \E c \in Exporting, handle \in ExportedHandles :
       \E n \in (IF handle = NULL THEN {0} ELSE RandomInts),
          reaches \in (IF handle = NULL THEN {TRUE} ELSE BOOLEAN) :
         ParentExported(c, handle, n, reaches)
  \/ \E k \in Cancellables : Cancel(k)
  \/ \E c \in Calls : PortalRespond(c)
  \/ \E c \in Calls : CompleteInIdle(c)
  \/ \E d \in inflight, response \in ResponseCodes :
       \E ret \in (IF response = 0 THEN Payloads(calls[CallOf(d)].kind) ELSE {EmptyDict}) :
         \E uninit \in (IF ReadsUninit(calls[CallOf(d)].kind, response, ret)
                         THEN UninitValues ELSE {"zero"}) :
           ResponseReceived(d, response, ret, uninit)
  \/ \E d \in inflight, response \in ResponseCodes, b \in FreeSlots :
       \E ret \in (IF response = 0 THEN Payloads(calls[CallOf(d)].kind) ELSE {EmptyDict}),
          kind \in Kinds, parent \in BOOLEAN, k \in {0} \cup Cancellables :
         \E uninit \in (IF ReadsUninit(calls[CallOf(d)].kind, response, ret)
                         THEN UninitValues ELSE {"zero"}),
            n \in (IF parent THEN {0} ELSE RandomInts),
            reaches \in (IF parent THEN {TRUE} ELSE BOOLEAN) :
           ResponseReceivedStarting(d, response, ret, uninit,
             [call |-> b, kind |-> kind, parent |-> parent, k |-> k,
              n |-> n, reaches |-> reaches])

Spec == Init /\ [][Next]_vars

\* ------------------------------------------------- response_received alone
\* What response_received makes of one Response, and what the _finish
\* function then hands the caller, for every Response the portal can send:
\* the a{sv} holds any of the fields of the action, and possibly one more.
WithExtra(f) ==
  [key \in DOMAIN f \cup {"extra"} |-> IF key \in DOMAIN f THEN f[key] ELSE Str("e")]

AnyPayloads(kind) ==
  LET partial == {Restrict(GoodPayload(kind), S) : S \in SUBSET DOMAIN GoodPayload(kind)}
  IN  partial \cup {WithExtra(GoodPayload(kind))}

ResponseInputs ==
  UNION {{[op |-> "response_received", kind |-> kind, response |-> response,
           ret |-> ret, uninit |-> uninit, cancelled |-> is_cancelled,
           done |-> FALSE, crashed |-> FALSE,
           result |-> NoResult, finished |-> NoResult] :
            response \in ResponseCodes, ret \in AnyPayloads(kind),
            uninit \in UninitValues, is_cancelled \in BOOLEAN} :
         kind \in Kinds}

ResponseInit == NoCalls /\ probe \in ResponseInputs

\* response_received up to g_task_return_*, then the callback's _finish.
ReceiveResponse ==
  /\ probe.op = "response_received"
  /\ ~probe.done
  /\ LET crash == Segfaults(probe.kind, probe.response, probe.ret, probe.uninit)
         result == ResponseResult(probe.kind, probe.response, probe.ret, probe.uninit)
     IN  probe' = IF crash THEN [probe EXCEPT !.done = TRUE, !.crashed = TRUE]
                  ELSE [probe EXCEPT !.done = TRUE,
                                     !.result = result,
                                     !.finished = task_propagate(result, probe.cancelled)]
  /\ UNCHANGED <<calls, tasks, cancelled, subs, handlers, parents, remote,
                 emitted, invocations, closes, inflight, log, crashed>>

ResponseSpec == ResponseInit /\ [][ReceiveResponse]_vars

\* ------------------------------------------------------------ properties
\* The step returns the task of call c.
Returns(c) == tasks'[c].returns > tasks[c].returns

\* The kinds whose response_received looks a field up before it returns.
Extracting == {"screenshot", "pick_color"}

\* C1: whenever a Response returns the task of a call, the outcome follows
\* from the code alone, for every kind of call and whatever the other calls
\* are doing: 1 gives Cancelled, a code other than 0 and 1 gives Failed, and
\* 0 gives Success, or Failed where the file extracts a field of the payload.
C1_ResponseCodeMapping ==
  [][\A c \in Calls :
       Returns(c) =>
         LET code == tasks'[c].response
             outcome == tasks'[c].result.outcome
         IN  /\ code \in ResponseCodes
             /\ code = 1 => outcome = "Cancelled"
             /\ code \notin {0, 1} => outcome = "Failed"
             /\ code = 0 => \/ outcome = "Success"
                            \/ outcome = "Failed" /\ calls[c].kind \in Extracting]_vars

\* Two calls were returned, one on code 0 and one on code 1.
C1_Witness ==
  \E a, b \in Calls :
    /\ tasks[a].returns = 1 /\ tasks[a].response = 0
    /\ tasks[a].result.outcome = "Success"
    /\ tasks[b].returns = 1 /\ tasks[b].response = 1
    /\ tasks[b].result.outcome = "Cancelled"

\* Call c has done e: e is in its log.
Did(c, e) == \E i \in DOMAIN log[c] : log[c][i] = e

\* Whatever e1 and e2 call c has done, every e1 came before every e2.
Before(c, e1, e2) ==
  \A i, j \in DOMAIN log[c] : log[c][i] = e1 /\ log[c][j] = e2 => i < j

\* The call is started and its task is not returned.
Live(c) == calls[c].stage \in {"exporting", "awaiting"}

\* The task was returned, its callback has run and the struct is freed.
Completed(c) ==
  calls[c].stage = "freed" /\ tasks[c].returns = 1 /\ tasks[c].callbacks = 1

\* The caller has cancelled the cancellable of call c.
CancelRequested(c) == task_cancelled(World, c)

\* The portal can still emit a Response that the subscription of c matches.
Answerable(c) ==
  \E r \in Calls, s \in subs :
    s.call = c /\ remote[r].state = "open" /\ remote[r].path = s.path

\* Something is still on its way to call c: the exporter's callback, the idle
\* completion of its task, a scheduled Response, or a Response yet to be emitted.
Pending(c) ==
  \/ parents[c].pending
  \/ tasks[c].idle
  \/ \E d \in inflight : CallOf(d) = c
  \/ Answerable(c)

\* C2: once cancelled_cb has run for a call that was waiting for its Response
\* (the Close is sent), the call is completed as cancelled - task returned,
\* callback run with G_IO_ERROR_CANCELLED, struct freed - or its completion is
\* scheduled in the process; it takes nothing more from the portal.
C2_CancelWhileAwaitingCompletes ==
  \A c \in Calls :
    Did(c, "close") =>
      \/ Completed(c) /\ tasks[c].finish = "Cancelled"
      \/ tasks[c].idle

\* C3: a started call does not hang once the caller's cancellation has reached
\* it: it is completed, with one result handed to the callback once, or
\* something that will complete it is still on its way.
C3_CancelledCallCompletes ==
  \A c \in Calls :
    Did(c, "close") =>
      \/ Completed(c) /\ tasks[c].finish \in {"Success", "Cancelled", "Failed"}
      \/ Pending(c)

\* C4: a task is returned at most once, and once it is returned no step
\* returns it again or changes the result it holds, whatever arrives later
\* (another Response on the path, a cancellation, a callback of the exporter).
C4_OutcomeWrittenOnce ==
  [][\A c \in Calls :
       /\ tasks'[c].returns <= 1
       /\ tasks[c].returns = 1 =>
            /\ tasks'[c].returns = 1
            /\ tasks'[c].result = tasks[c].result
            /\ tasks'[c].response = tasks[c].response]_vars

\* A call is completed while the request its own invocation made is still
\* open: the Response of another request on the same path completed it, and
\* the portal has a second Response on that path to emit.
C4_Witness ==
  \E c \in Calls : Completed(c) /\ remote[c].state = "open"

\* The cancellable of call c was cancelled before cancelled_cb was connected
\* to it: the call has not completed and its handler has not run.
CancelledEarly(c) == Live(c) /\ CancelRequested(c) /\ ~Did(c, "close")

\* C5: a call whose cancellable was cancelled before the invocation completes
\* locally: it is never found waiting for a Response.
C5_EarlyCancelCompletesLocally ==
  \A c \in Calls : CancelledEarly(c) => calls[c].stage # "awaiting"

\* C6: for a call whose cancellable was cancelled before the invocation, the
\* method is not sent, and it holds no subscription and no cancelled handler.
C6_EarlyCancelSendsNothing ==
  \A c \in Calls :
    CancelledEarly(c) =>
      /\ invocations[c] = <<>>
      /\ ~\E x \in subs : x.call = c
      /\ ~\E h \in handlers : h.call = c

\* The step cancels the cancellable of call c.
Cancels(c) ==
  /\ tasks[c].cancellable # 0
  /\ ~cancelled[tasks[c].cancellable]
  /\ cancelled'[tasks[c].cancellable]

\* C7: a cancellation that comes after the Response of a call was delivered
\* changes nothing of that call: its handler was disconnected before the task
\* was returned, so no Close is sent for it, and the task keeps the result the
\* code gave, which is what the callback got from the _finish function.
C7_CancelAfterResponseIsNoOp ==
  [][\A c \in Calls :
       tasks[c].returns = 1 /\ Cancels(c) =>
         /\ Before(c, "disconnect", "return")
         /\ Did(c, "connect") => Did(c, "disconnect")
         /\ closes'[c] = closes[c]
         /\ log'[c] = log[c]
         /\ calls'[c] = calls[c]
         /\ tasks'[c] = tasks[c]
         /\ tasks'[c].finish = tasks'[c].result.outcome]_vars

\* A call got its Response, its callback took the result, and then its
\* cancellable was cancelled.
C7_Witness ==
  \E c \in Calls :
    /\ Completed(c) /\ Did(c, "connect")
    /\ CancelRequested(c)
    /\ tasks[c].finish = "Success"

\* C8: on every branch a call unsubscribes from the Response exactly once,
\* the branch of the local cancellation included: once cancelled_cb has run and
\* nothing more is on its way to the call, it has unsubscribed once and its
\* subscription is gone.
C8_UnsubscribedOnEveryBranch ==
  \A c \in Calls :
    Did(c, "close") /\ ~Pending(c) =>
      /\ Count(World, c, "unsubscribe") = 1
      /\ ~\E x \in subs : x.call = c

\* C9: the task of a call is returned, and its callback run, only after the
\* resources of the call are released: the cancelled handler is disconnected,
\* the subscription removed and the parent unexported before the return.
C9_ReleasedBeforeReturn ==
  \A c \in Calls :
    Did(c, "return") =>
      /\ Before(c, "disconnect", "return")
      /\ Before(c, "unsubscribe", "return")
      /\ Before(c, "unexport", "return")

\* The call has held all three resources and has released them.
HeldAll(c) ==
  /\ Did(c, "export") /\ Did(c, "subscribe") /\ Did(c, "connect")
  /\ Did(c, "free")

\* C10 as claimed: a call that holds all three resources releases the
\* cancelled handler first, then removes the subscription, then unexports the
\* parent.
C10_ReverseAcquisitionOrder ==
  \A c \in Calls :
    HeldAll(c) =>
      /\ Before(c, "disconnect", "unsubscribe")
      /\ Before(c, "unsubscribe", "unexport")

\* C10, amended: a call that holds all three resources releases the cancelled
\* handler first, then unexports the parent, then removes the subscription:
\* each of them once.
C10_TeardownOrder ==
  \A c \in Calls :
    HeldAll(c) =>
      /\ Count(World, c, "disconnect") = 1
      /\ Count(World, c, "unexport") = 1
      /\ Count(World, c, "unsubscribe") = 1
      /\ Before(c, "disconnect", "unexport")
      /\ Before(c, "unexport", "unsubscribe")

\* A call that held a parent, a subscription and a handler is freed.
C10_Witness ==
  \E c \in Calls : HeldAll(c) /\ Did(c, "unexport") /\ Did(c, "unsubscribe")

\* C11: a call that has sent its method call had subscribed to Response on
\* its request path before, and after that had connected cancelled_cb if it
\* has a cancellable; the token sent is the one of the path subscribed to, and
\* while the call waits the subscription is in place.
C11_SubscribedBeforeInvocation ==
  \A c \in Calls :
    Did(c, "invoke") =>
      /\ Did(c, "subscribe")
      /\ Before(c, "subscribe", "connect")
      /\ Before(c, "subscribe", "invoke")
      /\ Before(c, "connect", "invoke")
      /\ tasks[c].cancellable # 0 <=> Did(c, "connect")
      /\ calls[c].stage = "awaiting" =>
           /\ \E x \in subs : /\ x.call = c /\ x.id = calls[c].signal_id
                               /\ x.path = calls[c].request_path
           /\ Len(invocations[c]) = 1
           /\ calls[c].request_path =
                RequestPath(Sender, invocations[c][1].handle_token)

\* A call with a cancellable has subscribed, connected and sent, and waits.
C11_Witness ==
  \E c \in Calls :
    /\ calls[c].stage = "awaiting" /\ tasks[c].cancellable # 0
    /\ Did(c, "subscribe") /\ Did(c, "connect") /\ Did(c, "invoke")

\* C12: the method call is sent only with the parent handle resolved: a call
\* that has sent it has a parent_handle that is not NULL - a handle the
\* exporter delivered if it has a parent, "" if it has none - and that is the
\* handle in the message; a call still waiting for the exporter has sent nothing.
C12_HandleResolvedBeforeInvocation ==
  \A c \in Calls :
    /\ calls[c].stage = "exporting" =>
         /\ ~Did(c, "invoke") /\ invocations[c] = <<>>
         /\ calls[c].parent_handle = NULL
    /\ calls[c].stage = "awaiting" =>
         /\ calls[c].parent_handle # NULL
         /\ calls[c].parent_handle \in
              (IF calls[c].parent THEN ExportedHandles \ {NULL} ELSE {Str("")})
         /\ \A i \in DOMAIN invocations[c] :
              invocations[c][i].parent_handle = calls[c].parent_handle
    /\ Did(c, "export") => Before(c, "export", "invoke")

\* A call with a parent has sent its method call with the exported handle,
\* after the exporter had once delivered none.
C12_Witness ==
  \E c \in Calls :
    /\ calls[c].stage = "awaiting" /\ calls[c].parent
    /\ Count(World, c, "export") = 2
    /\ invocations[c][1].parent_handle \in ExportedHandles \ {NULL}

\* The step is the exporter's callback for call c.
Exported(c) == parents[c].pending /\ log'[c] # log[c]

\* C13: when the exporter's callback delivers no handle the call fails: its
\* task is returned with G_IO_ERROR_FAILED, the method call is not sent and
\* the export is not asked for again.
C13_ExportFailureFailsCall ==
  [][\A c \in Calls :
       Exported(c) /\ calls'[c].parent_handle = NULL =>
         /\ tasks'[c].result.outcome = "Failed"
         /\ ~parents'[c].pending
         /\ Count([log |-> log'], c, "export") = 1
         /\ invocations'[c] = <<>>]_vars

\* The step is the entry point that makes call c.
Starts(c) == calls[c].stage = "unused" /\ calls'[c].stage # "unused"

\* Call c has done e by the end of the step.
DidNext(c, e) == \E i \in DOMAIN log'[c] : log'[c][i] = e

\* C14: an entry point called with no parent sets parent_handle to "", does
\* not ask the exporter, and subscribes and sends the method call before it
\* returns; when such a call is freed nothing is unexported.
C14_NoParentNoExport ==
  [][\A c \in Calls :
       /\ Starts(c) /\ ~calls'[c].parent /\ calls'[c].kind # "save_file" =>
            /\ calls'[c].parent_handle = Str("")
            /\ calls'[c].stage = "awaiting"
            /\ calls'[c].request_path # NULL /\ calls'[c].signal_id # 0
            /\ Len(invocations'[c]) = 1
            /\ invocations'[c][1].parent_handle = Str("")
            /\ parents'[c] = NoParent
            /\ ~DidNext(c, "export")
       /\ Live(c) /\ ~calls[c].parent =>
            /\ ~DidNext(c, "export") /\ ~DidNext(c, "unexport")
            /\ parents'[c] = NoParent]_vars

\* A call made with no parent is completed, with no export and no unexport.
C14_Witness ==
  \E c \in Calls :
    Completed(c) /\ ~Did(c, "export") /\ ~Did(c, "unexport") /\ Did(c, "invoke")

\* C15: xdp_portal_save_file with no parent does what xdp_portal_open_file
\* does with none: the struct it makes has "" for parent_handle, nothing is
\* exported, and the method call is sent before it returns.
C15_SaveFileWithoutParent ==
  \A c \in Calls :
    calls[c].kind = "save_file" /\ calls[c].stage \in {"created", "exporting", "awaiting"}
      /\ ~calls[c].parent =>
        /\ calls[c].stage = "awaiting"
        /\ calls[c].parent_handle = Str("")
        /\ Len(invocations[c]) = 1 /\ invocations[c][1].method = "SaveFile"
        /\ ~Did(c, "export")
        /\ ~crashed

\* ------------------------------------------------------ compose_email alone
\* xdp_portal_compose_email with every list of attachments: none (NULL), or
\* up to MaxAttachments paths, each of which opens, is missing, or opens and
\* is refused by the descriptor list.
AttachmentPaths == {Str("/a"), Str("/b")}
OpenOutcomes == {"opened", "missing", "refused"}
AttachmentFiles == [path : AttachmentPaths, outcome : OpenOutcomes]

AttachmentLists ==
  {NULL} \cup {Strv(list) : list \in UNION {[1 .. len -> AttachmentFiles] :
                                               len \in 0 .. MaxAttachments}}

EmailInit ==
  /\ NoCalls
  /\ probe \in {[op |-> "compose_email", attachments |-> list, done |-> FALSE,
                  warnings |-> <<>>, unowned |-> {}] : list \in AttachmentLists}

\* The caller composes an email with no parent and no cancellable; probe
\* keeps what compose_email left in the process besides the message.
ComposeEmail(c, n, reaches) ==
  /\ probe.op = "compose_email"
  /\ ~probe.done
  /\ c \in FreeSlots
  /\ Changes(xdp_portal_compose_email(World, c, FALSE, 0, n, reaches, probe.attachments))
  /\ probe' = [probe EXCEPT !.done = TRUE,
                            !.warnings = attachments_added(probe.attachments).warnings,
                            !.unowned = attachments_added(probe.attachments).unowned]

EmailNext == \E c \in FreeSlots, n \in RandomInts, reaches \in BOOLEAN : ComposeEmail(c, n, reaches)

EmailSpec == EmailInit /\ [][EmailNext]_vars

\* C16: pick color answered 0 without `color` fails with "Color not received",
\* take screenshot answered 0 without `uri` fails with "Screenshot not
\* received"; neither returns Success with a null or indeterminate value.
C16_MissingFieldFails ==
  (/\ probe.done
   /\ probe.response = 0
   /\ \/ probe.kind = "pick_color" /\ "color" \notin DOMAIN probe.ret
      \/ probe.kind = "screenshot" /\ "uri" \notin DOMAIN probe.ret)
  => /\ ~probe.crashed
     /\ probe.result = ErrorFailed(IF probe.kind = "pick_color"
                                   THEN "Color not received"
                                   ELSE "Screenshot not received")
     /\ probe.finished.outcome # "Success"

\* C17: for every action that returns data, a Response with code 0 whose
\* a{sv} lacks a field of the result is reported as Failed, never as Success.
C17_AbsentFieldNeverSuccess ==
  (/\ probe.done
   /\ probe.response = 0
   /\ probe.kind # "email"
   /\ ~(DOMAIN GoodPayload(probe.kind) \subseteq DOMAIN probe.ret))
  => /\ ~probe.crashed
     /\ probe.result.outcome = "Failed"
     /\ probe.result.type = "error"

Attached(files) == {i \in DOMAIN files : files[i].outcome = "opened"}
Rank(S, i) == Cardinality({x \in S : x <= i})

\* C19: compose email with a list of attachments of which some fail still
\* sends its invocation; the indices sent are, in input order, those of the
\* paths that opened (and that the descriptor list took), each index pointing
\* at the descriptor of its own path in the list sent along; every other path
\* gives one warning, and the call does not fail.
C19_OpenedAttachmentsSent ==
  (probe.op = "compose_email" /\ probe.done /\ probe.attachments # NULL)
  => LET files == probe.attachments[1]
         c == CHOOSE x \in Calls : calls[x].stage # "unused"
         msg == invocations[c][1]
         failing == DOMAIN files \ Attached(files)
     IN  /\ ~crashed
         /\ calls[c].stage = "awaiting"
         /\ tasks[c].result = NoResult
         /\ Len(invocations[c]) = 1
         /\ msg.method = "ComposeEmail"
         /\ Len(msg.fd_list) = Cardinality(Attached(files))
         /\ Len(msg.attachment_fds) = Cardinality(Attached(files))
         /\ \A j \in DOMAIN msg.attachment_fds :
              /\ msg.attachment_fds[j] \in 0 .. (Len(msg.fd_list) - 1)
              /\ LET d == msg.fd_list[msg.attachment_fds[j] + 1]
                 IN  /\ d.pos \in Attached(files)
                     /\ Rank(Attached(files), d.pos) = j
                     /\ d.path = files[d.pos].path
         /\ Len(probe.warnings) = Cardinality(failing)
         /\ \A i \in failing : probe.warnings[Rank(failing, i)][2] = files[i].path

C19_Witness ==
  /\ probe.op = "compose_email"
  /\ probe.done
  /\ probe.attachments # NULL
  /\ \E i, j \in DOMAIN probe.attachments[1] :
       /\ i < j
       /\ probe.attachments[1][i].outcome = "missing"
       /\ probe.attachments[1][j].outcome = "opened"
  /\ \E c \in Calls : /\ calls[c].stage = "awaiting"
                       /\ invocations[c][1].attachment_fds # <<>>
  /\ probe.warnings # <<>>

\* C20: whenever compose email has no attachment to send (no list, an empty
\* list, or a list of which no path opened), the options of its invocation
\* have no attachment_fds entry.
C20_NoEmptyAttachmentField ==
  (/\ probe.op = "compose_email"
   /\ probe.done
   /\ probe.attachments = NULL \/ Attached(probe.attachments[1]) = {})
  => \A c \in Calls : \A i \in DOMAIN invocations[c] :
       "attachment_fds" \notin DOMAIN invocations[c][i]

\* C21: two calls that wait for their Response at the same time never have
\* the same handle_token or the same request path, and no subscription of
\* one matches the request of the other.
C21_DistinctRequestPaths ==
  \A a, b \in Calls :
    (a # b /\ calls[a].stage = "awaiting" /\ calls[b].stage = "awaiting")
    => /\ calls[a].request_path # calls[b].request_path
       /\ invocations[a][1].handle_token # invocations[b][1].handle_token
       /\ ~\E x, y \in subs : x.call = a /\ y.call = b /\ x.path = y.path

\* C22: for each call the method call of its action is sent at most once and
\* Close at most once, the Close only after the method call, whatever the
\* exporter, the portal and the caller do; and every message sent for the
\* call is one of these two.
C22_SentAtMostOnce ==
  \A c \in Calls :
    /\ Count(World, c, "invoke") <= 1
    /\ Count(World, c, "close") <= 1
    /\ Before(c, "invoke", "close")
    /\ Did(c, "close") => Did(c, "invoke")
    /\ calls[c].stage # "freed" =>
         /\ Len(invocations[c]) = Count(World, c, "invoke")
         /\ Len(closes[c]) = Count(World, c, "close")
         /\ \A i \in DOMAIN invocations[c] :
              invocations[c][i].method = Method(calls[c].kind)

C22_Witness ==
  \E c \in Calls :
    /\ parents[c].exports = MaxExports
    /\ Len(invocations[c]) = 1
    /\ Len(closes[c]) = 1
    /\ calls[c].stage = "awaiting"

\* What belongs to call b is as it was: its struct (token, path, ids, parent
\* handle), its task (outcome), its subscription, its cancel connection and
\* its parent.
Untouched(b) ==
  /\ calls'[b] = calls[b]
  /\ tasks'[b] = tasks[b]
  /\ parents'[b] = parents[b]
  /\ {x \in subs' : x.call = b} = {x \in subs : x.call = b}
  /\ {h \in handlers' : h.call = b} = {h \in handlers : h.call = b}

\* C23: a step in which the handlers of call a run - its Response, its
\* export callback, its teardown, its start, its idle completion - and no
\* handler of call b does leaves b, if it is in flight, as it was.
C23_CallsIndependent ==
  [][\A a, b \in Calls :
       (/\ a # b
        /\ Live(b)
        /\ log'[a] # log[a]
        /\ log'[b] = log[b])
       => Untouched(b)]_vars

C23_Witness ==
  \E a, b \in Calls :
    /\ a # b
    /\ Did(a, "export") /\ Did(a, "disconnect") /\ Did(a, "free")
    /\ calls[b].stage = "awaiting"
    /\ tasks[b].cancellable # 0
    /\ tasks[a].cancellable = tasks[b].cancellable
    /\ \E h \in handlers : h.call = b /\ h.id = calls[b].cancelled_id
    /\ \E x \in subs : x.call = b /\ x.id = calls[b].signal_id

\* C24: in a process that has not died, a call whose task has been returned
\* holds nothing, whatever the Response was: its struct is freed, no subscription and no cancel handler
\* of it is left, each was removed once, and a parent that was exported is
\* unexported exactly once.
C24_ReturnedCallHoldsNothing ==
  \A c \in Calls :
    (tasks[c].returns >= 1 /\ ~crashed) =>
      /\ calls[c].stage = "freed"
      /\ ~\E x \in subs : x.call = c
      /\ ~\E h \in handlers : h.call = c
      /\ ~\E d \in inflight : \E x \in subs : x.id = d.sub /\ x.call = c
      /\ Count(World, c, "unsubscribe") = 1
      /\ Count(World, c, "disconnect") = (IF tasks[c].cancellable # 0 THEN 1 ELSE 0)
      /\ Count(World, c, "unexport") = (IF Did(c, "export") THEN 1 ELSE 0)

C24_Witness ==
  \E c \in Calls :
    /\ tasks[c].returns = 1
    /\ tasks[c].response = 0
    /\ tasks[c].result.outcome = "Failed"
    /\ Did(c, "export")
    /\ Did(c, "connect")
    /\ Count(World, c, "unexport") = 1

\* C25: a call whose method call did not reach the portal does not stay
\* waiting: as long as a call waits for its Response and has not sent Close,
\* a Response for it can still come (the portal holds its request, or the
\* Response is scheduled), or its completion is scheduled.
C25_FailedInvocationSurfaces ==
  \A c \in Calls :
    (calls[c].stage = "awaiting" /\ ~Did(c, "close")) => Pending(c)

\* C26: whatever the exporter answers and however often it fails, a call
\* makes its token and path and subscribes at most once, in a step that finds
\* the parent handle set and that sends the invocation after it; the id and
\* the path it then holds are left alone until the call is freed.
C26_IdentityAllocatedOnce ==
  [][\A c \in Calls :
       /\ Count([log |-> log'], c, "subscribe") <= 1
       /\ Cardinality({x \in subs' : x.call = c}) <= 1
       /\ Count([log |-> log'], c, "subscribe") > Count(World, c, "subscribe") =>
            /\ calls'[c].parent_handle # NULL
            /\ ~parents'[c].pending
            /\ calls[c].signal_id = 0 /\ calls[c].request_path = NULL
            /\ calls[c].parent => Count(World, c, "export") >= 1
            /\ log'[c][Len(log'[c])] = "invoke"
            /\ Count([log |-> log'], c, "invoke") = 1
            /\ calls'[c].request_path = RequestPath(Sender, invocations'[c][1].handle_token)
            /\ \E x \in subs' : /\ x.call = c /\ x.id = calls'[c].signal_id
                                 /\ x.path = calls'[c].request_path
       /\ calls[c].signal_id # 0 =>
            \/ calls'[c].stage = "freed"
            \/ /\ calls'[c].signal_id = calls[c].signal_id
               /\ calls'[c].request_path = calls[c].request_path]_vars

C26_Witness ==
  \E c \in Calls :
    /\ Count(World, c, "export") = MaxExports
    /\ Count(World, c, "subscribe") = 1
    /\ calls[c].stage = "awaiting"
    /\ calls[c].signal_id # 0
    /\ calls[c].request_path # NULL

\* C27: when the callback of a completing call a starts a call b before
\* a is freed (with any cancellable, the one of a included, and any token,
\* the one of a included), the teardown of a that follows removes the
\* subscription and the cancel connection of a and nothing of b: after the
\* step b is where its entry point left it, subscribed on its path and
\* connected to its cancellable.
C27_StartFromCallbackUndisturbed ==
  [][\A a, b \in Calls :
       (/\ a # b
        /\ Starts(b)
        /\ DidNext(a, "start_in_callback")
        /\ ~crashed')
       => /\ calls'[a].stage = "freed"
          /\ tasks'[a].callbacks = 1
          /\ ~\E x \in subs' : x.call = a
          /\ ~\E h \in handlers' : h.call = a
          /\ calls'[b].stage \in {"exporting", "awaiting"}
          /\ calls'[b].stage = "exporting" => parents'[b].pending /\ parents'[b].unexports = 0
          /\ calls'[b].stage = "awaiting" =>
               /\ \E x \in subs' : /\ x.call = b /\ x.id = calls'[b].signal_id
                                    /\ x.path = calls'[b].request_path
               /\ tasks'[b].cancellable # 0 =>
                    \E h \in handlers' : /\ h.call = b /\ h.id = calls'[b].cancelled_id
                                         /\ h.cancellable = tasks'[b].cancellable
          /\ ~DidNext(b, "unsubscribe") /\ ~DidNext(b, "disconnect")
          /\ ~DidNext(b, "unexport") /\ ~DidNext(b, "free")]_vars

C27_Witness ==
  \E a, b \in Calls :
    /\ a # b
    /\ Did(a, "start_in_callback")
    /\ Did(a, "connect")
    /\ calls[a].stage = "freed"
    /\ log[b] = <<"new", "subscribe", "connect", "invoke">>
    /\ tasks[b].cancellable = tasks[a].cancellable
    /\ calls[b].stage = "awaiting"
    /\ \E x \in subs : x.call = b
    /\ \E h \in handlers : h.call = b

\* C28: when the caller cancels the cancellable of a call whose handler is
\* connected, one Close is sent for the call, addressed to the request_path
\* of that call: a set path, the one its subscription is on and the one made
\* from the handle_token of its invocation; the portal's request there ends.
\* A call with no handler connected sends none.
C28_CloseOnOwnPath ==
  [][\A c \in Calls :
       LET armed == \E h \in handlers : h.call = c /\ h.id = calls[c].cancelled_id
       IN  /\ (Cancels(c) /\ armed) =>
                /\ closes'[c] = Append(closes[c], calls[c].request_path)
                /\ calls[c].request_path # NULL
                /\ calls[c].request_path = RequestPath(Sender, invocations[c][1].handle_token)
                /\ \E x \in subs : /\ x.call = c /\ x.id = calls[c].signal_id
                                    /\ x.path = calls[c].request_path
                /\ ~\E r \in Calls : /\ remote'[r].state = "open"
                                      /\ remote'[r].path = calls[c].request_path
           /\ closes'[c] # closes[c] /\ closes'[c] # <<>> => Cancels(c) /\ armed]_vars

C28_Witness ==
  \E a, b \in Calls :
    /\ a # b
    /\ calls[a].stage = "awaiting" /\ calls[b].stage = "awaiting"
    /\ calls[a].request_path # calls[b].request_path
    /\ closes[a] = <<calls[a].request_path>>
    /\ closes[b] = <<calls[b].request_path>>

\* C29: a call connects a cancel handler only if it was given a cancellable,
\* and then once; the id it stores is that of a handler which is connected;
\* the handler is disconnected at most once, and exactly once by the time
\* the call is freed, after which the stored id is 0; a call without a
\* cancellable never disconnects anything.
C29_BridgeDisconnectedOnce ==
  \A c \in Calls :
    /\ Count(World, c, "connect") =
         (IF tasks[c].cancellable # 0 /\ Did(c, "subscribe") THEN 1 ELSE 0)
    /\ Count(World, c, "disconnect") <= Count(World, c, "connect")
    /\ tasks[c].cancellable = 0 => calls[c].cancelled_id = 0 /\ ~Did(c, "disconnect")
    /\ Did(c, "disconnect") => calls[c].cancelled_id = 0
    /\ calls[c].stage = "freed" => Count(World, c, "disconnect") = Count(World, c, "connect")
    /\ \A h \in handlers : h.call = c =>
         h.id = calls[c].cancelled_id /\ h.cancellable = tasks[c].cancellable
    /\ calls[c].cancelled_id # 0 =>
         \E h \in handlers : h.call = c /\ h.id = calls[c].cancelled_id

C29_Witness ==
  \E c \in Calls :
    /\ calls[c].stage = "freed"
    /\ tasks[c].cancellable # 0
    /\ Count(World, c, "connect") = 1
    /\ Count(World, c, "disconnect") = 1
    /\ Before(c, "disconnect", "free")

\* C30: for every call that has sent its invocation, the handle_token in the
\* options is the token at the end of the request path the call subscribed
\* on, that path is REQUEST_PATH_PREFIX, the sender, "/" and the token, and
\* the request the portal made for the invocation is at that path.
C30_TokenMatchesPath ==
  \A c \in Calls :
    calls[c].stage = "awaiting" =>
      LET token == invocations[c][1].handle_token
          path == REQUEST_PATH_PREFIX \o Sender \o <<"/">> \o token
      IN  /\ Len(invocations[c]) = 1
          /\ token # NULL
          /\ calls[c].request_path = path
          /\ SubSeq(path, Len(path) - Len(token) + 1, Len(path)) = token
          /\ \E x \in subs : x.call = c /\ x.id = calls[c].signal_id /\ x.path = path
          /\ \A x \in subs : x.call = c => x.path = path
          /\ remote[c].state = "open" => remote[c].path = path

C30_Witness ==
  \E c \in Calls :
    /\ calls[c].stage = "awaiting"
    /\ calls[c].parent
    /\ remote[c].state = "open"
    /\ invocations[c][1].handle_token = Token(1)
    /\ \E x \in subs : x.call = c /\ x.path = remote[c].path

\* C31: once a call is freed, response_received, cancelled_cb and
\* parent_exported never run with it again, whatever is delivered, cancelled
\* or torn down afterwards: the freed struct stays as it is, its task is not
\* returned again, the only thing that can still happen for the call is the
\* idle completion of its task, and nothing that would run a handler with it
\* is left: no subscription, no scheduled Response, no cancel handler, no
\* export callback owed.
C31_NoHandlerAfterFree ==
  [][\A c \in Calls :
       /\ calls[c].stage = "freed" =>
            /\ calls'[c] = calls[c]
            /\ tasks'[c].returns = tasks[c].returns
            /\ tasks'[c].result = tasks[c].result
            /\ \/ log'[c] = log[c]
               \/ tasks[c].idle /\ log'[c] = Append(log[c], "callback")
       /\ calls'[c].stage = "freed" =>
            /\ ~\E x \in subs' : x.call = c
            /\ ~\E h \in handlers' : h.call = c
            /\ ~\E d \in inflight' : \E x \in subs' : x.id = d.sub /\ x.call = c
            /\ \A d \in inflight' : \E x \in subs' : x.id = d.sub
            /\ ~parents'[c].pending]_vars

C31_Witness ==
  \E c, b \in Calls :
    /\ c # b
    /\ calls[c].stage = "freed"
    /\ Did(c, "connect")
    /\ tasks[c].finish = "Success"
    /\ tasks[b].cancellable = tasks[c].cancellable
    /\ cancelled[tasks[c].cancellable]
    /\ Did(b, "close")
    /\ ~Did(c, "close")
    /\ calls[b].stage = "freed"

\* C32: when compose_email has returned, every descriptor g_open gave it for
\* an attachment is owned by the descriptor list of the invocation or is
\* closed: none is left open and unowned, neither for a path that was
\* appended (the list holds its own duplicate) nor for a path whose append
\* failed.
C32_NoDescriptorLeftOpen ==
  (probe.op = "compose_email" /\ probe.done) => probe.unowned = {}
====
